---- MODULE Spec2Model ----
(***************************************************************************)
(* A model of diskSpace.py: the selection parser (parse_selection), the   *)
(* bounded Top-N file selector (top_files over iter_files, with heapq),   *)
(* the folder aggregator (top_folders), the mount-table device            *)
(* enumeration (enumerate_disks) and the report driver (main).            *)
(*                                                                         *)
(* Strings are sequences of one-character strings.  The character written *)
(* "sup2" stands for U+00B2 SUPERSCRIPT TWO: str.isdigit() is True for it *)
(* and int() raises ValueError on it.  File paths are sequences of code    *)
(* points.  The drive-letter branch of enumerate_disks (os.name == "nt")   *)
(* is not modelled; the mount table is taken as the list of mount strings  *)
(* its lines give.  Each component has a specification of its own, the     *)
(* others staying idle.                                                    *)
(***************************************************************************)
EXTENDS Integers, Sequences, FiniteSets

VARIABLES
    \* parse_selection(s, max_idx)
    sel_s, sel_max, sel_pc, sel_result,
    \* top_files(root, n): the heap, the files iter_files has yielded so far,
    \* the number of files whose os.stat failed, and the outcome
    tf_n, heap, walked, tf_skipped, tf_pc, tf_result,
    \* top_folders(root, n): the list entries, the number of directory
    \* entries os.scandir has produced, and the outcome
    fo_n, entries, fo_count, fo_pc, fo_result,
    \* enumerate_disks(): the mount list, the position of the filter loop in
    \* it, the set seen, the list disks
    en_source, en_mounts, en_i, en_seen, en_disks, en_pc,
    \* main(): the parsed arguments, the mount table of the host, the local
    \* variables disks, selection_raw and indices, the position in the loop
    \* over indices, the scans made so far, and how the process ended
    m_top, m_include_folders, m_export, m_mounts, m_disks, m_raw, m_indices,
    m_k, m_log, m_pc, m_exit, m_exc

sel_vars == <<sel_s, sel_max, sel_pc, sel_result>>
tf_vars == <<tf_n, heap, walked, tf_skipped, tf_pc, tf_result>>
fo_vars == <<fo_n, entries, fo_count, fo_pc, fo_result>>
en_vars == <<en_source, en_mounts, en_i, en_seen, en_disks, en_pc>>
m_args == <<m_top, m_include_folders, m_export, m_mounts>>
m_vars == <<m_args, m_disks, m_raw, m_indices, m_k, m_log, m_pc, m_exit, m_exc>>
vars == <<sel_vars, tf_vars, fo_vars, en_vars, m_vars>>

\* ------------------------------------------------------------------------
\* Bounds of the model
\* ------------------------------------------------------------------------

\* longest selection string enumerated over SelAlphabet
MaxLen == 4
\* largest max_idx (number of listed disks) handed to parse_selection
MaxIdx == 3
\* most files one walk visits
MaxFiles == 4
\* largest n handed to top_files and top_folders
MaxN == 3
\* most entries os.scandir lists under one root
MaxChildren == 3
\* most lines of the mount table
MaxMounts == 3

\* ------------------------------------------------------------------------
\* Python str primitives used by parse_selection
\* ------------------------------------------------------------------------

Whitespace == {" ", "\t"}

AsciiDigits == <<"0", "1", "2", "3", "4", "5", "6", "7", "8", "9">>

AsciiDigitSet == {AsciiDigits[i] : i \in 1..10}

\* characters for which str.isdigit() is True
DigitChars == AsciiDigitSet \cup {"sup2"}

RECURSIVE LStrip(_)
LStrip(s) ==
    IF s # <<>> /\ Head(s) \in Whitespace THEN LStrip(Tail(s)) ELSE s

RECURSIVE RStrip(_)
RStrip(s) ==
    IF s # <<>> /\ s[Len(s)] \in Whitespace
    THEN RStrip(SubSeq(s, 1, Len(s) - 1))
    ELSE s

\* str.strip()
Strip(s) == RStrip(LStrip(s))

LowerChar(c) ==
    CASE c = "A" -> "a"
      [] c = "L" -> "l"
      [] c = "X" -> "x"
      [] OTHER -> c

\* str.lower()
Lower(s) == [i \in 1..Len(s) |-> LowerChar(s[i])]

\* str.replace(pat, rep): leftmost, non-overlapping occurrences
RECURSIVE Replace(_, _, _)
Replace(s, pat, rep) ==
    IF Len(s) < Len(pat) THEN s
    ELSE IF SubSeq(s, 1, Len(pat)) = pat
    THEN rep \o Replace(SubSeq(s, Len(pat) + 1, Len(s)), pat, rep)
    ELSE <<Head(s)>> \o Replace(Tail(s), pat, rep)

\* str.split(sep) for a one-character separator: empty pieces are kept
RECURSIVE Split(_, _)
Split(s, sep) ==
    IF \A i \in 1..Len(s) : s[i] # sep THEN <<s>>
    ELSE LET k == CHOOSE i \in 1..Len(s) :
                      s[i] = sep /\ \A j \in 1..(i - 1) : s[j] # sep
         IN  <<SubSeq(s, 1, k - 1)>> \o Split(SubSeq(s, k + 1, Len(s)), sep)

\* str.isdigit()
IsDigit(s) == s # <<>> /\ \A i \in 1..Len(s) : s[i] \in DigitChars

DigitVal(c) == (CHOOSE i \in 1..10 : AsciiDigits[i] = c) - 1

\* int(s) for a string that passed isdigit(): the decimal value ...
RECURSIVE IntValue(_)
IntValue(s) ==
    IF s = <<>> THEN 0
    ELSE 10 * IntValue(SubSeq(s, 1, Len(s) - 1)) + DigitVal(s[Len(s)])

\* ... and ValueError when a character is a digit int() does not accept
IntRaises(s) == \E i \in 1..Len(s) : s[i] \notin AsciiDigitSet

\* [f(x) for x in seq if x.strip()] with f = strip
RECURSIVE StripNonEmpty(_)
StripNonEmpty(seq) ==
    IF seq = <<>> THEN <<>>
    ELSE IF Strip(Head(seq)) # <<>>
    THEN <<Strip(Head(seq))>> \o StripNonEmpty(Tail(seq))
    ELSE StripNonEmpty(Tail(seq))

\* sorted(chosen)
RECURSIVE Sorted(_)
Sorted(S) ==
    IF S = {} THEN <<>>
    ELSE LET m == CHOOSE x \in S : \A y \in S : x <= y
         IN  <<m>> \o Sorted(S \ {m})

\* list(range(1, max_idx + 1))
RangeList(max_idx) == [i \in 1..max_idx |-> i]

\* ------------------------------------------------------------------------
\* parse_selection
\* ------------------------------------------------------------------------

Returned(v) == [exc |-> "none", val |-> v]

Raised(e) == [exc |-> e, val |-> <<>>]

ALL == <<"a", "l", "l">>

\* a, b = int(parts[0]), int(parts[1]); if a > b: a, b = b, a
RangeBoundsNoSwap(a, b) == <<a, b>>

RangeBounds(a, b) == IF a > b THEN <<b, a>> ELSE <<a, b>>

\* for i in range(a, b + 1): if 1 <= i <= max_idx: chosen.add(i)
RangeIndices(a, b, max_idx) ==
    LET ab == RangeBounds(a, b)
    IN  {i \in ab[1]..ab[2] : 1 <= i /\ i <= max_idx}

\* parts = [p.strip() for p in token.split('-') if p.strip()]
RangeParts(token) == StripNonEmpty(Split(token, "-"))

\* the body of the for loop over the tokens, token by token
RECURSIVE TokenLoop(_, _, _)
TokenLoop(tokens, chosen, max_idx) ==
    IF tokens = <<>> THEN Returned(Sorted(chosen))
    ELSE
      LET token == Head(tokens)
          parts == RangeParts(token)
      IN
        IF token = ALL THEN Returned(RangeList(max_idx))
        ELSE IF (\E i \in 1..Len(token) : token[i] = "-")
                /\ Len(parts) = 2 /\ IsDigit(parts[1]) /\ IsDigit(parts[2])
        THEN IF IntRaises(parts[1]) \/ IntRaises(parts[2])
             THEN Raised("ValueError")
             ELSE TokenLoop(Tail(tokens),
                            chosen \cup RangeIndices(IntValue(parts[1]),
                                                     IntValue(parts[2]), max_idx),
                            max_idx)
        ELSE IF IsDigit(token)
        THEN IF IntRaises(token)
             THEN Raised("ValueError")
             ELSE LET i == IntValue(token)
                  IN  TokenLoop(Tail(tokens),
                                IF 1 <= i /\ i <= max_idx
                                THEN chosen \cup {i} ELSE chosen,
                                max_idx)
        ELSE TokenLoop(Tail(tokens), chosen, max_idx)

\* norm = s.replace(';', ','); norm = norm.replace(' - ', '-')
Normalize(s) == Replace(Replace(s, <<";">>, <<",">>), <<" ", "-", " ">>, <<"-">>)

parse_selection(s0, max_idx) ==
    IF s0 = <<>> THEN Returned(<<>>)
    ELSE
      LET s == Lower(Strip(s0))
      IN  IF s = ALL THEN Returned(RangeList(max_idx))
          ELSE TokenLoop(StripNonEmpty(Split(Normalize(s), ",")), {}, max_idx)

\* ------------------------------------------------------------------------
\* Inputs of parse_selection
\* ------------------------------------------------------------------------

SelAlphabet == {"1", "3", " ", ",", ";", "-", "a", "sup2"}

RECURSIVE StringsUpTo(_, _)
StringsUpTo(A, n) ==
    IF n = 0 THEN {<<>>}
    ELSE LET shorter == StringsUpTo(A, n - 1)
         IN  shorter \cup {Append(s, c) : s \in {t \in shorter : Len(t) = n - 1}, c \in A}

\* the inputs the documentation and the docstring name
SelExamples ==
    { <<"a", "l", "l">>,
      <<"A", "L", "L">>,
      <<" ", "a", "l", "l", " ">>,
      <<"1", ",", "a", "l", "l">>,
      <<"1", ",", "3", ",", "5">>,
      <<"1", ",", " ", "3", ",", " ", "5">>,
      <<"1", " ", "-", " ", "4">>,
      <<"3", " ", "-", " ", "1">>,
      <<"1", "-", "3", ",", " ", "5", ",", " ", "7", "-", "8">>,
      <<"0", ",", "9", "9">>,
      <<"1", "-", "2", "-", "3">>,
      <<"2", ";", "1", ";", "2">>,
      <<"0", "2", "-", "0", "1">> }

SelInputs == StringsUpTo(SelAlphabet, MaxLen) \cup SelExamples

\* ------------------------------------------------------------------------
\* Records: (size, path, mtime) tuples, compared as Python compares tuples
\* ------------------------------------------------------------------------

\* str < str: by code point, a proper prefix first
RECURSIVE StrLess(_, _)
StrLess(a, b) ==
    IF b = <<>> THEN FALSE
    ELSE IF a = <<>> THEN TRUE
    ELSE IF Head(a) # Head(b) THEN Head(a) < Head(b)
    ELSE StrLess(Tail(a), Tail(b))

\* (size, path, mtime) < (size, path, mtime)
TupleLess(x, y) ==
    \/ x[1] < y[1]
    \/ x[1] = y[1] /\ StrLess(x[2], y[2])
    \/ x[1] = y[1] /\ x[2] = y[2] /\ x[3] < y[3]

\* ------------------------------------------------------------------------
\* heapq, on a list held as a sequence (position p is element p + 1)
\* ------------------------------------------------------------------------

\* heapq._siftdown(heap, startpos, pos), newitem being the item to place
RECURSIVE SiftDownFrom(_, _, _, _)
SiftDownFrom(h, startpos, pos, newitem) ==
    IF pos > startpos
    THEN LET parentpos == (pos - 1) \div 2
             parent == h[parentpos + 1]
         IN  IF TupleLess(newitem, parent)
             THEN SiftDownFrom([h EXCEPT ![pos + 1] = parent],
                               startpos, parentpos, newitem)
             ELSE [h EXCEPT ![pos + 1] = newitem]
    ELSE [h EXCEPT ![pos + 1] = newitem]

SiftDown(h, startpos, pos) == SiftDownFrom(h, startpos, pos, h[pos + 1])

\* the while loop of heapq._siftup: the smaller child moves up until a leaf
RECURSIVE SiftUpLoop(_, _, _)
SiftUpLoop(h, pos, newitem) ==
    LET endpos == Len(h)
        childpos == 2 * pos + 1
        rightpos == childpos + 1
        pick == IF rightpos < endpos
                   /\ ~TupleLess(h[childpos + 1], h[rightpos + 1])
                THEN rightpos ELSE childpos
    IN  IF childpos < endpos
        THEN SiftUpLoop([h EXCEPT ![pos + 1] = h[pick + 1]], pick, newitem)
        ELSE <<[h EXCEPT ![pos + 1] = newitem], pos>>

\* heapq._siftup(heap, pos)
SiftUp(h, pos) ==
    LET r == SiftUpLoop(h, pos, h[pos + 1])
    IN  SiftDown(r[1], pos, r[2])

\* heapq.heappush(heap, item)
HeapPush(h, item) == SiftDown(Append(h, item), 0, Len(h))

\* heapq.heapreplace(heap, item) with the last element replaced, not the root
HeapReplaceLast(h, item) == SiftDown([h EXCEPT ![Len(h)] = item], 0, Len(h) - 1)

\* heapq.heapreplace(heap, item), on a heap that is not empty
HeapReplace(h, item) == SiftUp([h EXCEPT ![1] = item], 0)

\* list.sort(reverse=True) with a key of the size alone: equal sizes keep
\* the order they have in the list
RECURSIVE SortBySizeOnly(_)
SortBySizeOnly(h) ==
    IF h = <<>> THEN <<>>
    ELSE LET k == CHOOSE i \in 1..Len(h) :
                      /\ \A j \in 1..Len(h) : h[j][1] <= h[i][1]
                      /\ \A j \in 1..(i - 1) : h[j][1] < h[i][1]
         IN  <<h[k]>> \o SortBySizeOnly(SubSeq(h, 1, k - 1) \o SubSeq(h, k + 1, Len(h)))

\* list.sort(reverse=True): descending in the tuple order
RECURSIVE SortReverse(_)
SortReverse(h) ==
    IF h = <<>> THEN <<>>
    ELSE LET k == CHOOSE i \in 1..Len(h) :
                      /\ \A j \in 1..Len(h) : ~TupleLess(h[i], h[j])
                      /\ \A j \in 1..(i - 1) : TupleLess(h[j], h[i])
         IN  <<h[k]>> \o SortReverse(SubSeq(h, 1, k - 1) \o SubSeq(h, k + 1, Len(h)))

\* ------------------------------------------------------------------------
\* top_files
\* ------------------------------------------------------------------------

\* if len(heap) < n, with the bound off by one
HasRoomOffByOne(h, n) == Len(h) <= n

\* if len(heap) < n
HasRoom(h, n) == Len(h) < n

\* the body of the for loop for one yielded file: the heap after it, or the
\* IndexError of heap[0] on an empty heap
LoopBody(h, n, file) ==
    IF HasRoom(h, n) THEN Returned(HeapPush(h, file))
    ELSE IF h = <<>> THEN Raised("IndexError")
    ELSE IF file[1] > h[1][1] THEN Returned(HeapReplace(h, file))
    ELSE Returned(h)

\* the whole of top_files on the files a walk yields
RECURSIVE TopFilesFrom(_, _, _)
TopFilesFrom(h, n, files) ==
    IF files = <<>> THEN Returned(SortReverse(h))
    ELSE LET r == LoopBody(h, n, Head(files))
         IN  IF r.exc # "none" THEN r ELSE TopFilesFrom(r.val, n, Tail(files))

top_files(files, n) == TopFilesFrom(<<>>, n, files)

\* ------------------------------------------------------------------------
\* Inputs of top_files: what os.walk and os.stat give
\* ------------------------------------------------------------------------

Sizes == {0, 1, 2}

MTimes == {1}

\* the i-th path in code point order: "a", "aa", "b", "ba", "c", ...
PathOf(i) == IF i % 2 = 1 THEN <<97 + i \div 2>> ELSE <<96 + i \div 2, 97>>

Paths == {PathOf(i) : i \in 1..MaxFiles}

PathsOf(files) == {files[i][2] : i \in 1..Len(files)}

\* ------------------------------------------------------------------------
\* top_folders
\* ------------------------------------------------------------------------

\* folder_size(folder): the sum of os.path.getsize over the files beneath
\* it, a file whose getsize raises adding nothing; a file is <<size, ok>>
RECURSIVE folder_size(_)
folder_size(files) ==
    IF files = <<>> THEN 0
    ELSE (IF Head(files)[2] THEN Head(files)[1] ELSE 0) + folder_size(Tail(files))

\* lst[:n]: the first n elements; for n < 0 all but the last -n
Slice(lst, n) ==
    LET stop == IF n < 0 THEN (IF Len(lst) + n < 0 THEN 0 ELSE Len(lst) + n)
                ELSE (IF n < Len(lst) THEN n ELSE Len(lst))
    IN  SubSeq(lst, 1, stop)

\* entries.sort(reverse=True); return entries[:n]
SortAndSlice(lst, n) == Slice(SortReverse(lst), n)

\* what lies beneath one child directory: up to two files
SubTreeFiles == {<<1, TRUE>>, <<2, TRUE>>, <<2, FALSE>>}

SubTrees ==
    {<<>>} \cup {<<f>> : f \in SubTreeFiles}
           \cup {<<f, g>> : f \in SubTreeFiles, g \in SubTreeFiles}

ChildPaths == {PathOf(i) : i \in 1..MaxChildren}

\* ------------------------------------------------------------------------
\* enumerate_disks, the mount-table branch
\* ------------------------------------------------------------------------

Letters ==
    <<"a", "b", "c", "d", "e", "f", "g", "h", "i", "j", "k", "l", "m",
      "n", "o", "p", "q", "r", "s", "t", "u", "v", "w", "x", "y", "z">>

\* ord(c) for the characters of the mount strings
CodePoint(c) == IF c = "/" THEN 47 ELSE 96 + (CHOOSE i \in 1..26 : Letters[i] = c)

Codes(s) == [i \in 1..Len(s) |-> CodePoint(s[i])]

\* str.startswith(p)
StartsWith(s, p) == Len(s) >= Len(p) /\ SubSeq(s, 1, Len(p)) = p

DenyPrefixes ==
    { <<"/", "p", "r", "o", "c">>,
      <<"/", "s", "y", "s">>,
      <<"/", "d", "e", "v">>,
      <<"/", "r", "u", "n">>,
      <<"/", "s", "n", "a", "p">>,
      <<"/", "p", "r", "i", "v", "a", "t", "e", "/", "v", "a", "r">> }

Root == <<"/">>
Data == <<"/", "d", "a", "t", "a">>
DataSlash == <<"/", "d", "a", "t", "a", "/">>
SysFs == <<"/", "s", "y", "s", "/", "f", "s">>
Gone == <<"/", "g", "o", "n", "e">>
Boot == <<"/", "b", "o", "o", "t">>

\* the mount strings a mount table of the model may hold
MountStrings == {Root, Data, DataSlash, SysFs, Gone, Boot}

\* os.path.isdir(mnt) on the modelled host
IsDir(mnt) == mnt # Gone

\* shutil.disk_usage(mnt) raises on the modelled host
UsageRaises(mnt) == mnt = Boot

\* shutil.disk_usage(mnt): <<total, free>>; /data and /data/ are one volume
DiskUsage(mnt) == IF mnt = Root THEN <<8, 2>> ELSE <<4, 3>>

\* if mnt in seen, with the test left out
AlreadySeenNever(mnt, seen) == FALSE

\* if mnt in seen
AlreadySeen(mnt, seen) == mnt \in seen

\* one pass of the filter loop: <<seen, disks>> after mnt
FilterMount(mnt, seen, disks) ==
    IF ~IsDir(mnt) THEN <<seen, disks>>
    ELSE IF \E p \in DenyPrefixes : StartsWith(mnt, p) THEN <<seen, disks>>
    ELSE IF AlreadySeen(mnt, seen) THEN <<seen, disks>>
    ELSE IF UsageRaises(mnt) THEN <<seen \cup {mnt}, disks>>
    ELSE <<seen \cup {mnt},
           Append(disks, <<mnt, mnt, DiskUsage(mnt)[1], DiskUsage(mnt)[2]>>)>>

\* disks.sort(key=lambda t: t[0]): ascending by name, equal names in place
RECURSIVE SortByName(_)
SortByName(d) ==
    IF d = <<>> THEN <<>>
    ELSE LET k == CHOOSE i \in 1..Len(d) :
                      /\ \A j \in 1..Len(d) : ~StrLess(Codes(d[j][1]), Codes(d[i][1]))
                      /\ \A j \in 1..(i - 1) : StrLess(Codes(d[i][1]), Codes(d[j][1]))
         IN  <<d[k]>> \o SortByName(SubSeq(d, 1, k - 1) \o SubSeq(d, k + 1, Len(d)))

RECURSIVE FilterFrom(_, _, _)
FilterFrom(mounts, seen, disks) ==
    IF mounts = <<>> THEN disks
    ELSE LET r == FilterMount(Head(mounts), seen, disks)
         IN  FilterFrom(Tail(mounts), r[1], r[2])

\* enumerate_disks() on a host whose mount table lists mounts
enumerate_disks(mounts) == SortByName(FilterFrom(mounts, {}, <<>>))

RECURSIVE SeqsUpTo(_, _)
SeqsUpTo(S, n) ==
    IF n = 0 THEN {<<>>}
    ELSE LET shorter == SeqsUpTo(S, n - 1)
         IN  shorter \cup {Append(q, x) : q \in {r \in shorter : Len(r) = n - 1}, x \in S}

MountTables == SeqsUpTo(MountStrings, MaxMounts)

\* ------------------------------------------------------------------------
\* main: the host it runs on
\* ------------------------------------------------------------------------

\* top_folders(root, n) on the directories collected under root
top_folders(collected, n) == SortAndSlice(collected, n)

\* the files iter_files yields under a device root of the modelled host
WalkOf(path) ==
    IF path = Root
    THEN <<<<2, PathOf(1), 1>>, <<1, PathOf(2), 1>>, <<2, PathOf(3), 1>>>>
    ELSE <<>>

\* the child directories of a device root, with their sizes
FoldersOf(path) ==
    IF path = Root THEN <<<<1, PathOf(1), 1>>, <<3, PathOf(2), 1>>>> ELSE <<>>

\* the values of --top
TopValues == (0 - 1)..2

MainMountTables == SeqsUpTo({Root, Data, SysFs}, 2)

\* the lines typed at the prompt
MainInputs ==
    { <<>>,
      <<"a", "l", "l">>,
      <<"1">>,
      <<"2">>,
      <<"2", ",", "1">>,
      <<"1", "-", "2">>,
      <<"3">>,
      <<"x">>,
      <<"sup2">> }

\* ------------------------------------------------------------------------
\* A component that is not the one under study stays idle
\* ------------------------------------------------------------------------

SelIdle ==
    /\ sel_s = <<>>
    /\ sel_max = 0
    /\ sel_pc = "idle"
    /\ sel_result = Returned(<<>>)

MainIdle ==
    /\ m_top = 0
    /\ m_include_folders = FALSE
    /\ m_export = FALSE
    /\ m_mounts = <<>>
    /\ m_disks = <<>>
    /\ m_raw = <<>>
    /\ m_indices = <<>>
    /\ m_k = 0
    /\ m_log = <<>>
    /\ m_pc = "idle"
    /\ m_exit = 0 - 1
    /\ m_exc = "none"

FoIdle ==
    /\ fo_n = 0
    /\ entries = <<>>
    /\ fo_count = 0
    /\ fo_pc = "idle"
    /\ fo_result = <<>>

EnIdle ==
    /\ en_source = "none"
    /\ en_mounts = <<>>
    /\ en_i = 0
    /\ en_seen = {}
    /\ en_disks = <<>>
    /\ en_pc = "idle"

TfIdle ==
    /\ tf_n = 0
    /\ heap = <<>>
    /\ walked = <<>>
    /\ tf_skipped = 0
    /\ tf_pc = "idle"
    /\ tf_result = <<>>

\* ------------------------------------------------------------------------
\* Specification of the parser
\* ------------------------------------------------------------------------

\* the max_idx values of the documented examples
DocMaxes == {5, 10}

SelInit ==
    /\ sel_s \in SelInputs
    /\ sel_max \in (0..MaxIdx) \cup DocMaxes
    /\ sel_pc = "call"
    /\ sel_result = Returned(<<>>)

ParseReturn ==
    /\ sel_pc = "call"
    /\ parse_selection(sel_s, sel_max).exc = "none"
    /\ sel_result' = parse_selection(sel_s, sel_max)
    /\ sel_pc' = "returned"
    /\ UNCHANGED <<sel_s, sel_max, tf_vars, fo_vars, en_vars, m_vars>>

ParseRaise ==
    /\ sel_pc = "call"
    /\ parse_selection(sel_s, sel_max).exc # "none"
    /\ sel_result' = parse_selection(sel_s, sel_max)
    /\ sel_pc' = "raised"
    /\ UNCHANGED <<sel_s, sel_max, tf_vars, fo_vars, en_vars, m_vars>>

SelNext == ParseReturn \/ ParseRaise

ParseInit == SelInit /\ TfIdle /\ FoIdle /\ EnIdle /\ MainIdle

SpecParse == ParseInit /\ [][SelNext]_vars

\* ------------------------------------------------------------------------
\* Specification of the file selector, one file of the walk per step
\* ------------------------------------------------------------------------

TfInit ==
    /\ tf_n \in (0 - 1)..MaxN
    /\ heap = <<>>
    /\ walked = <<>>
    /\ tf_skipped = 0
    /\ tf_pc = "loop"
    /\ tf_result = <<>>

\* iter_files yields a file and the loop body runs without raising
YieldFile ==
    /\ tf_pc = "loop"
    /\ Len(walked) + tf_skipped < MaxFiles
    /\ \E size \in Sizes, path \in Paths \ PathsOf(walked), mtime \in MTimes :
         LET file == <<size, path, mtime>>
         IN  /\ LoopBody(heap, tf_n, file).exc = "none"
             /\ heap' = LoopBody(heap, tf_n, file).val
             /\ walked' = Append(walked, file)
    /\ UNCHANGED <<tf_n, tf_skipped, tf_pc, tf_result, sel_vars, fo_vars, en_vars, m_vars>>

\* iter_files yields a file and heap[0] raises IndexError
YieldFileRaises ==
    /\ tf_pc = "loop"
    /\ Len(walked) + tf_skipped < MaxFiles
    /\ \E size \in Sizes, path \in Paths \ PathsOf(walked), mtime \in MTimes :
         LET file == <<size, path, mtime>>
         IN  /\ LoopBody(heap, tf_n, file).exc # "none"
             /\ walked' = Append(walked, file)
    /\ tf_pc' = "raised"
    /\ UNCHANGED <<tf_n, heap, tf_skipped, tf_result, sel_vars, fo_vars, en_vars, m_vars>>

\* os.stat fails on a file: iter_files skips it
StatFails ==
    /\ tf_pc = "loop"
    /\ Len(walked) + tf_skipped < MaxFiles
    /\ tf_skipped' = tf_skipped + 1
    /\ UNCHANGED <<tf_n, heap, walked, tf_pc, tf_result, sel_vars, fo_vars, en_vars, m_vars>>

\* the walk ends: heap.sort(reverse=True); return heap
WalkEnds ==
    /\ tf_pc = "loop"
    /\ heap' = SortReverse(heap)
    /\ tf_result' = heap'
    /\ tf_pc' = "returned"
    /\ UNCHANGED <<tf_n, walked, tf_skipped, sel_vars, fo_vars, en_vars, m_vars>>

TfNext == YieldFile \/ YieldFileRaises \/ StatFails \/ WalkEnds

TopFilesInit == SelIdle /\ TfInit /\ FoIdle /\ EnIdle /\ MainIdle

SpecTopFiles == TopFilesInit /\ [][TfNext]_vars

\* ------------------------------------------------------------------------
\* Specification of the folder aggregator, one scandir entry per step
\* ------------------------------------------------------------------------

FoInit ==
    /\ fo_n \in (0 - 1)..MaxN
    /\ entries = <<>>
    /\ fo_count = 0
    /\ fo_pc = "scan"
    /\ fo_result = <<>>

\* an entry that is a directory: its size is summed and it is appended
AddFolder ==
    /\ fo_pc = "scan"
    /\ fo_count < MaxChildren
    /\ \E path \in ChildPaths \ PathsOf(entries), tree \in SubTrees, mtime \in MTimes :
         entries' = Append(entries, <<folder_size(tree), path, mtime>>)
    /\ fo_count' = fo_count + 1
    /\ UNCHANGED <<fo_n, fo_pc, fo_result, sel_vars, tf_vars, en_vars, m_vars>>

\* an entry that is no directory, or a directory whose stat raises
SkipEntry ==
    /\ fo_pc = "scan"
    /\ fo_count < MaxChildren
    /\ fo_count' = fo_count + 1
    /\ UNCHANGED <<fo_n, entries, fo_pc, fo_result, sel_vars, tf_vars, en_vars, m_vars>>

\* os.scandir, or the iteration over it, raises: return []
ScandirFails ==
    /\ fo_pc = "scan"
    /\ fo_result' = <<>>
    /\ fo_pc' = "denied"
    /\ UNCHANGED <<fo_n, entries, fo_count, sel_vars, tf_vars, en_vars, m_vars>>

\* the listing ends: entries.sort(reverse=True); return entries[:n]
FoldersEnd ==
    /\ fo_pc = "scan"
    /\ entries' = SortReverse(entries)
    /\ fo_result' = SortAndSlice(entries, fo_n)
    /\ fo_pc' = "returned"
    /\ UNCHANGED <<fo_n, fo_count, sel_vars, tf_vars, en_vars, m_vars>>

FoNext == AddFolder \/ SkipEntry \/ ScandirFails \/ FoldersEnd

TopFoldersInit == SelIdle /\ TfIdle /\ FoInit /\ EnIdle /\ MainIdle

SpecTopFolders == TopFoldersInit /\ [][FoNext]_vars

\* ------------------------------------------------------------------------
\* Specification of the device enumeration, one mount per step
\* ------------------------------------------------------------------------

EnInit ==
    /\ en_source = "none"
    /\ en_mounts = <<>>
    /\ en_i = 0
    /\ en_seen = {}
    /\ en_disks = <<>>
    /\ en_pc = "read"

\* /proc/mounts is read: the second field of each line
ReadProcMounts ==
    /\ en_pc = "read"
    /\ en_source' = "/proc/mounts"
    /\ en_mounts' \in MountTables
    /\ en_i' = 1
    /\ en_pc' = "filter"
    /\ UNCHANGED <<en_seen, en_disks, sel_vars, tf_vars, fo_vars, m_vars>>

\* /proc/mounts cannot be read: the last column of each line of df
ReadDf ==
    /\ en_pc = "read"
    /\ en_source' = "df"
    /\ en_mounts' \in MountTables
    /\ en_i' = 1
    /\ en_pc' = "filter"
    /\ UNCHANGED <<en_seen, en_disks, sel_vars, tf_vars, fo_vars, m_vars>>

\* neither can be had: mounts = ['/']
FallBackToRoot ==
    /\ en_pc = "read"
    /\ en_source' = "fallback"
    /\ en_mounts' = <<Root>>
    /\ en_i' = 1
    /\ en_pc' = "filter"
    /\ UNCHANGED <<en_seen, en_disks, sel_vars, tf_vars, fo_vars, m_vars>>

\* for mnt in mounts: one mount
FilterStep ==
    /\ en_pc = "filter"
    /\ en_i <= Len(en_mounts)
    /\ en_seen' = FilterMount(en_mounts[en_i], en_seen, en_disks)[1]
    /\ en_disks' = FilterMount(en_mounts[en_i], en_seen, en_disks)[2]
    /\ en_i' = en_i + 1
    /\ UNCHANGED <<en_source, en_mounts, en_pc, sel_vars, tf_vars, fo_vars, m_vars>>

\* disks.sort(key=lambda t: t[0]); return disks
SortDisks ==
    /\ en_pc = "filter"
    /\ en_i > Len(en_mounts)
    /\ en_disks' = SortByName(en_disks)
    /\ en_pc' = "returned"
    /\ UNCHANGED <<en_source, en_mounts, en_i, en_seen, sel_vars, tf_vars, fo_vars, m_vars>>

EnNext == ReadProcMounts \/ ReadDf \/ FallBackToRoot \/ FilterStep \/ SortDisks

EnumerateInit == SelIdle /\ TfIdle /\ FoIdle /\ EnInit /\ MainIdle

SpecEnumerate == EnumerateInit /\ [][EnNext]_vars

\* ------------------------------------------------------------------------
\* Specification of main
\* ------------------------------------------------------------------------

MInit ==
    /\ m_top \in TopValues
    /\ m_include_folders \in BOOLEAN
    /\ m_export \in BOOLEAN
    /\ m_mounts \in MainMountTables
    /\ m_disks = <<>>
    /\ m_raw = <<>>
    /\ m_indices = <<>>
    /\ m_k = 0
    /\ m_log = <<>>
    /\ m_pc = "enumerate"
    /\ m_exit = 0 - 1
    /\ m_exc = "none"

Others == <<sel_vars, tf_vars, fo_vars, en_vars>>

\* the device of the current pass of the loop: disks[i - 1]
Device == m_disks[m_indices[m_k]]

\* the end of a pass of the loop: the next index, or 'Done.' and return 0
NextDevice ==
    IF m_k < Len(m_indices)
    THEN /\ m_k' = m_k + 1
         /\ m_pc' = "files"
         /\ UNCHANGED m_exit
    ELSE /\ m_pc' = "exit"
         /\ m_exit' = 0
         /\ UNCHANGED m_k

\* after the files of a device: its folders, or the end of the pass
AfterFiles ==
    IF m_include_folders
    THEN m_pc' = "folders" /\ UNCHANGED <<m_k, m_exit>>
    ELSE NextDevice

\* disks = enumerate_disks(); if not disks: return 1
MainEnumerate ==
    /\ m_pc = "enumerate"
    /\ m_disks' = enumerate_disks(m_mounts)
    /\ IF enumerate_disks(m_mounts) = <<>>
       THEN m_pc' = "exit" /\ m_exit' = 1
       ELSE m_pc' = "prompt" /\ UNCHANGED m_exit
    /\ UNCHANGED <<m_args, m_raw, m_indices, m_k, m_log, m_exc, Others>>

\* selection_raw = input(prompt); indices = parse_selection(...);
\* if not indices: return 1
MainPrompt ==
    /\ m_pc = "prompt"
    /\ \E raw \in MainInputs :
         LET r == parse_selection(raw, Len(m_disks))
         IN  /\ m_raw' = raw
             /\ r.exc = "none"
             /\ m_indices' = r.val
             /\ IF r.val = <<>>
                THEN m_pc' = "exit" /\ m_exit' = 1
                ELSE m_pc' = "makedirs" /\ UNCHANGED m_exit
    /\ UNCHANGED <<m_args, m_disks, m_k, m_log, m_exc, Others>>

\* parse_selection raises: the exception leaves main
MainPromptRaises ==
    /\ m_pc = "prompt"
    /\ \E raw \in MainInputs :
         LET r == parse_selection(raw, Len(m_disks))
         IN  /\ m_raw' = raw
             /\ r.exc # "none"
             /\ m_exc' = r.exc
    /\ m_pc' = "crashed"
    /\ UNCHANGED <<m_args, m_disks, m_indices, m_k, m_log, m_exit, Others>>

\* if args.export: os.makedirs(args.output_dir, exist_ok=True)
MainMakedirs ==
    /\ m_pc = "makedirs"
    /\ m_k' = 1
    /\ m_pc' = "files"
    /\ UNCHANGED <<m_args, m_disks, m_raw, m_indices, m_log, m_exit, m_exc, Others>>

\* os.makedirs raises: the output directory cannot be made
MainMakedirsFails ==
    /\ m_pc = "makedirs"
    /\ m_export
    /\ m_exc' = "OSError"
    /\ m_pc' = "crashed"
    /\ UNCHANGED <<m_args, m_disks, m_raw, m_indices, m_k, m_log, m_exit, Others>>

\* files = top_files(path, args.top), printed
MainTopFiles ==
    /\ m_pc = "files"
    /\ top_files(WalkOf(Device[2]), m_top).exc = "none"
    /\ m_log' = Append(m_log, <<m_indices[m_k], "files">>)
    /\ IF m_export /\ top_files(WalkOf(Device[2]), m_top).val # <<>>
       THEN m_pc' = "export_files" /\ UNCHANGED <<m_k, m_exit>>
       ELSE AfterFiles
    /\ UNCHANGED <<m_args, m_disks, m_raw, m_indices, m_exc, Others>>

\* top_files raises: the exception leaves main
MainTopFilesRaises ==
    /\ m_pc = "files"
    /\ top_files(WalkOf(Device[2]), m_top).exc # "none"
    /\ m_exc' = top_files(WalkOf(Device[2]), m_top).exc
    /\ m_pc' = "crashed"
    /\ UNCHANGED <<m_args, m_disks, m_raw, m_indices, m_k, m_log, m_exit, Others>>

\* export_csv(files, ...) writes the file
MainExportFiles ==
    /\ m_pc = "export_files"
    /\ AfterFiles
    /\ UNCHANGED <<m_args, m_disks, m_raw, m_indices, m_log, m_exc, Others>>

\* export_csv(files, ...) raises
MainExportFilesFails ==
    /\ m_pc = "export_files"
    /\ m_exc' = "OSError"
    /\ m_pc' = "crashed"
    /\ UNCHANGED <<m_args, m_disks, m_raw, m_indices, m_k, m_log, m_exit, Others>>

\* folders = top_folders(path, args.top), printed
MainTopFolders ==
    /\ m_pc = "folders"
    /\ m_log' = Append(m_log, <<m_indices[m_k], "folders">>)
    /\ IF m_export /\ top_folders(FoldersOf(Device[2]), m_top) # <<>>
       THEN m_pc' = "export_folders" /\ UNCHANGED <<m_k, m_exit>>
       ELSE NextDevice
    /\ UNCHANGED <<m_args, m_disks, m_raw, m_indices, m_exc, Others>>

\* export_csv(folders, ...) writes the file
MainExportFolders ==
    /\ m_pc = "export_folders"
    /\ NextDevice
    /\ UNCHANGED <<m_args, m_disks, m_raw, m_indices, m_log, m_exc, Others>>

\* export_csv(folders, ...) raises
MainExportFoldersFails ==
    /\ m_pc = "export_folders"
    /\ m_exc' = "OSError"
    /\ m_pc' = "crashed"
    /\ UNCHANGED <<m_args, m_disks, m_raw, m_indices, m_k, m_log, m_exit, Others>>

MNext ==
    \/ MainEnumerate
    \/ MainPrompt
    \/ MainPromptRaises
    \/ MainMakedirs
    \/ MainMakedirsFails
    \/ MainTopFiles
    \/ MainTopFilesRaises
    \/ MainExportFiles
    \/ MainExportFilesFails
    \/ MainTopFolders
    \/ MainExportFolders
    \/ MainExportFoldersFails

MainInit == SelIdle /\ TfIdle /\ FoIdle /\ EnIdle /\ MInit

SpecMain == MainInit /\ [][MNext]_vars

\* ------------------------------------------------------------------------
\* What the selection grammar says, stated without the parser
\* ------------------------------------------------------------------------

IsSep(c) == c = "," \/ c = ";"

\* the comma/semicolon-separated pieces of s, as index intervals
PieceSpans(s) ==
    {sp \in (1..(Len(s) + 1)) \X (0..Len(s)) :
        /\ sp[2] >= sp[1] - 1
        /\ \A i \in sp[1]..sp[2] : ~IsSep(s[i])
        /\ (sp[1] = 1 \/ IsSep(s[sp[1] - 1]))
        /\ (sp[2] = Len(s) \/ IsSep(s[sp[2] + 1]))}

\* t without the whitespace around it
Trimmed(t) ==
    LET ink == {i \in 1..Len(t) : t[i] \notin Whitespace}
    IN  IF ink = {} THEN <<>>
        ELSE SubSeq(t, CHOOSE i \in ink : \A j \in ink : i <= j,
                       CHOOSE i \in ink : \A j \in ink : j <= i)

GrammarTokens(s) ==
    {Trimmed(SubSeq(s, sp[1], sp[2])) : sp \in PieceSpans(s)} \ {<<>>}

IsIntLiteral(t) == t # <<>> /\ \A i \in 1..Len(t) : t[i] \in AsciiDigitSet

RECURSIVE Pow10(_)
Pow10(k) == IF k = 0 THEN 1 ELSE 10 * Pow10(k - 1)

RECURSIVE DecimalFrom(_, _)
DecimalFrom(t, i) ==
    IF i > Len(t) THEN 0
    ELSE DigitVal(t[i]) * Pow10(Len(t) - i) + DecimalFrom(t, i + 1)

Decimal(t) == DecimalFrom(t, 1)

\* the ways to read t as A-B or A - B: the pairs <<A, B>>
PairReadings(t) ==
    {ab \in {<<SubSeq(t, 1, k - 1), SubSeq(t, k + 1, Len(t))>> : k \in 1..Len(t)}
            \cup {<<SubSeq(t, 1, k - 1), SubSeq(t, k + 3, Len(t))>> : k \in 1..Len(t)} :
        /\ IsIntLiteral(ab[1]) /\ IsIntLiteral(ab[2])
        /\ \/ t = ab[1] \o <<"-">> \o ab[2]
           \/ t = ab[1] \o <<" ", "-", " ">> \o ab[2]}

\* the readings of t as A, spaces, a dash, spaces, B
LoosePairReadings(t) ==
    {ab \in {<<Trimmed(SubSeq(t, 1, k - 1)), Trimmed(SubSeq(t, k + 1, Len(t)))>> :
                 k \in {i \in 1..Len(t) : t[i] = "-"}} :
        IsIntLiteral(ab[1]) /\ IsIntLiteral(ab[2])}

Between(i, a, b) == (a <= i /\ i <= b) \/ (b <= i /\ i <= a)

\* the indices the tokens of s name, within 1..max_idx
NamedIndices(s, max_idx) ==
    {i \in 1..max_idx :
        \E t \in GrammarTokens(s) :
            \/ IsIntLiteral(t) /\ Decimal(t) = i
            \/ \E ab \in PairReadings(t) : Between(i, Decimal(ab[1]), Decimal(ab[2]))}

\* every token is a bare integer or a pair A-B (or A - B)
WellFormedSelection(s) ==
    \A t \in GrammarTokens(s) : IsIntLiteral(t) \/ PairReadings(t) # {}

StrictlyAscending(q) == \A i, j \in 1..Len(q) : i < j => q[i] < q[j]

Elements(q) == {q[i] : i \in 1..Len(q)}

\* ------------------------------------------------------------------------
\* Claims about parse_selection
\* ------------------------------------------------------------------------

\* C4: for every input string and every max_idx >= 0 parse_selection returns
\* normally with a list; no token, however malformed (non-ASCII digit
\* characters included), makes it raise.
C4_NeverRaises ==
    sel_pc # "call" => sel_pc = "returned" /\ sel_result.exc = "none"

\* C5: when every token is a bare non-negative integer or a pair A-B (also
\* written A - B), the result is the strictly ascending, duplicate-free list
\* of exactly the indices in 1..max_idx that an integer token names or that
\* lie in the inclusive range between the bounds of a pair.
C5_WellFormedResult ==
    (sel_pc # "call" /\ WellFormedSelection(sel_s)) =>
        /\ sel_pc = "returned"
        /\ sel_result.exc = "none"
        /\ StrictlyAscending(sel_result.val)
        /\ Elements(sel_result.val) = NamedIndices(sel_s, sel_max)

\* a well-formed input with a pair written high-low was parsed, the result
\* holding some but not all of 1..max_idx
C5_Witness ==
    /\ sel_pc = "returned"
    /\ WellFormedSelection(sel_s)
    /\ \E t \in GrammarTokens(sel_s) : \E ab \in PairReadings(t) :
           Decimal(ab[1]) > Decimal(ab[2])
    /\ Len(sel_result.val) >= 2
    /\ Len(sel_result.val) < sel_max

HasOnlyAscii(s) == \A i \in 1..Len(s) : s[i] # "sup2"

\* a token the grammar does not accept: no integer, no pair, not "all"
MalformedToken(t) ==
    /\ t # <<>>
    /\ ~IsIntLiteral(t)
    /\ LoosePairReadings(t) = {}
    /\ Lower(t) # ALL

SepPieces(s) == Split(Replace(s, <<";">>, <<",">>), ",")

RECURSIVE JoinPieces(_)
JoinPieces(ps) ==
    IF ps = <<>> THEN <<>>
    ELSE IF Len(ps) = 1 THEN ps[1]
    ELSE ps[1] \o <<",">> \o JoinPieces(Tail(ps))

\* s with its k-th piece taken out
WithoutPiece(s, k) ==
    LET ps == SepPieces(s)
    IN  JoinPieces(SubSeq(ps, 1, k - 1) \o SubSeq(ps, k + 1, Len(ps)))

\* C6: a token that is neither a bare non-negative integer nor a pair A-B of
\* two non-negative integers contributes no index: the result is the result
\* for the input without that token.  (Stated on inputs of ASCII characters.)
C6_MalformedIgnored ==
    (sel_pc # "call" /\ HasOnlyAscii(sel_s)) =>
        \A k \in 1..Len(SepPieces(sel_s)) :
            MalformedToken(Trimmed(SepPieces(sel_s)[k])) =>
                sel_result = parse_selection(WithoutPiece(sel_s, k), sel_max)

\* ------------------------------------------------------------------------
\* Claims about top_files
\* ------------------------------------------------------------------------

SizesOf(q) == [i \in 1..Len(q) |-> q[i][1]]

\* a sequence of numbers, largest first
RECURSIVE Descending(_)
Descending(q) ==
    IF q = <<>> THEN <<>>
    ELSE LET k == CHOOSE i \in 1..Len(q) : \A j \in 1..Len(q) : q[j] <= q[i]
         IN  <<q[k]>> \o Descending(SubSeq(q, 1, k - 1) \o SubSeq(q, k + 1, Len(q)))

NonIncreasing(q) == \A i, j \in 1..Len(q) : i < j => q[i] >= q[j]

Smaller(a, b) == IF a < b THEN a ELSE b

\* C1: for n >= 1 and any sequence of files the walk yields, top_files
\* returns min(n, fileCount) records, non-increasing by size, whose sizes are
\* those of the n largest files: the first n of all sizes sorted descending.
C1_TopN ==
    tf_n >= 1 =>
        /\ tf_pc # "raised"
        /\ tf_pc = "returned" =>
             /\ Len(tf_result) = Smaller(tf_n, Len(walked))
             /\ NonIncreasing(SizesOf(tf_result))
             /\ SizesOf(tf_result) =
                    SubSeq(Descending(SizesOf(walked)), 1, Smaller(tf_n, Len(walked)))

\* a walk of more than n files returned, a file seen after the heap was full
\* having displaced an earlier one
C1_Witness ==
    /\ tf_pc = "returned"
    /\ tf_n >= 1
    /\ Len(walked) > tf_n
    /\ \E i \in (tf_n + 1)..Len(walked) :
           \E j \in 1..Len(tf_result) : tf_result[j] = walked[i]

\* C2: for n <= 0 and any root, one with files included, top_files returns
\* the empty sequence and never raises.
C2_EmptyForNonPositiveN ==
    tf_n <= 0 =>
        /\ tf_pc # "raised"
        /\ tf_pc = "returned" => tf_result = <<>>

\* C3: in every state of the traversal, however many files were processed,
\* the heap holds at most n elements (none when n <= 0).
C3_HeapBounded == Len(heap) <= (IF tf_n > 0 THEN tf_n ELSE 0)

\* the heap is full and more files than n have been processed
C3_Witness ==
    /\ tf_pc = "loop"
    /\ tf_n >= 1
    /\ Len(walked) > tf_n
    /\ Len(heap) = tf_n

\* C10, as claimed: records of equal size are in no order fixed by path or
\* mtime; the final sort looks at the size alone, so they keep the relative
\* order they have in the heap when the walk ends.
C10_TiesNotOrdered ==
    [][(tf_pc = "loop" /\ tf_pc' = "returned") => tf_result' = SortBySizeOnly(heap)]_vars

\* C10, amended: records of equal size appear in descending order of path
\* (the tuple order of the final sort); paths of a walk being distinct, the
\* mtime never decides.
C10_TiesByPathDescending ==
    tf_pc = "returned" =>
        \A i, j \in 1..Len(tf_result) :
            (i < j /\ tf_result[i][1] = tf_result[j][1]) =>
                StrLess(tf_result[j][2], tf_result[i][2])

\* two records of equal size were returned, the one walked first placed first
C10_Witness ==
    /\ tf_pc = "returned"
    /\ \E i, j \in 1..Len(tf_result) :
           /\ i < j
           /\ tf_result[i][1] = tf_result[j][1]
           /\ \E a, b \in 1..Len(walked) :
                  a < b /\ walked[a] = tf_result[i] /\ walked[b] = tf_result[j]

\* ------------------------------------------------------------------------
\* Claims about top_folders
\* ------------------------------------------------------------------------

\* C7: for every integer n, zero and negative included, top_folders returns
\* at most max(n, 0) records, never more than n, non-increasing by size: the
\* n largest immediate child directories.
C7_AtMostN ==
    fo_pc = "returned" =>
        /\ Len(fo_result) <= (IF fo_n > 0 THEN fo_n ELSE 0)
        /\ NonIncreasing(SizesOf(fo_result))
        /\ SizesOf(fo_result) = SubSeq(Descending(SizesOf(entries)), 1, Len(fo_result))

\* ------------------------------------------------------------------------
\* Claims about enumerate_disks
\* ------------------------------------------------------------------------

\* the path a mount string resolves to: no trailing slash, but for the root
RECURSIVE Resolve(_)
Resolve(mnt) ==
    IF Len(mnt) > 1 /\ mnt[Len(mnt)] = "/"
    THEN Resolve(SubSeq(mnt, 1, Len(mnt) - 1))
    ELSE mnt

\* C9, as claimed: mounts are deduplicated by resolved path; no two devices
\* returned have root paths that resolve to the same path.
C9_DistinctResolvedPaths ==
    en_pc = "returned" =>
        \A i, j \in 1..Len(en_disks) :
            i # j => Resolve(en_disks[i][2]) # Resolve(en_disks[j][2])

\* C9, amended: mounts are deduplicated by mount string; no two devices
\* returned have the same root path string.
C9_DistinctPathStrings ==
    en_pc = "returned" =>
        \A i, j \in 1..Len(en_disks) : i # j => en_disks[i][2] # en_disks[j][2]

\* a mount table that repeats a mount string was enumerated, and the mount
\* is among the devices
C9_Witness ==
    /\ en_pc = "returned"
    /\ \E a, b \in 1..Len(en_mounts) :
           /\ a < b
           /\ en_mounts[a] = en_mounts[b]
           /\ \E i \in 1..Len(en_disks) : en_disks[i][2] = en_mounts[a]

\* ------------------------------------------------------------------------
\* Claims about main
\* ------------------------------------------------------------------------

\* the scans of a run that visits the devices of sel in order, each fully
RECURSIVE ScansOf(_, _)
ScansOf(sel, folders) ==
    IF sel = <<>> THEN <<>>
    ELSE (IF folders THEN <<<<Head(sel), "files">>, <<Head(sel), "folders">>>>
                     ELSE <<<<Head(sel), "files">>>>)
         \o ScansOf(Tail(sel), folders)

\* C8: in every run of main that hits no export failure: with no devices,
\* or with an empty parsed selection, main returns 1 and scans nothing;
\* otherwise every selected device is scanned exactly once, in ascending
\* index order, each fully (files, then the folders if asked for) before the
\* next, and main returns 0.
C8_ExitCodeAndScanOrder ==
    (m_pc \in {"exit", "crashed"} /\ m_exc # "OSError") =>
        /\ m_pc = "exit"
        /\ IF m_disks = <<>> \/ m_indices = <<>>
           THEN m_exit = 1 /\ m_log = <<>>
           ELSE /\ m_exit = 0
                /\ StrictlyAscending(m_indices)
                /\ m_log = ScansOf(m_indices, m_include_folders)

\* C8, on the runs in which neither parse_selection nor top_files raises
\* (those of C4 and C2): the same statement holds.
C8_WhenNothingRaises ==
    (m_pc = "exit") =>
        IF m_disks = <<>> \/ m_indices = <<>>
        THEN m_exit = 1 /\ m_log = <<>>
        ELSE /\ m_exit = 0
             /\ StrictlyAscending(m_indices)
             /\ m_log = ScansOf(m_indices, m_include_folders)

====
